---- MODULE Spec2Model ----
(***************************************************************************)
(* A model of sysinfo-lab (src/main.go): a one-shot collector that runs    *)
(* eight probes over /proc and /sys/fs/cgroup in a fixed order, assembles  *)
(* a SysInfo record and renders it as a table or as a JSON document.       *)
(*                                                                         *)
(* Text is modelled as a sequence of one-character strings, so that the    *)
(* splitting, trimming, scanning and parsing the probes do is computed.    *)
(* A uint64 is a sequence of five base-10000 limbs, most significant       *)
(* first (TLC integers are 32 bits wide).  An optional value (a Go nil     *)
(* pointer or not) is a sequence of length 0 or 1.  A float64 is a record  *)
(* [k, n, d]: k = "fin" with the value n/d in lowest terms, "inf" with the *)
(* sign in n, or "nan".                                                    *)
(*                                                                         *)
(* The files the probes read are the variable fs, fixed when the process   *)
(* starts: every file is read at most once, so a snapshot is all a run can *)
(* see.  Spec draws fs from every combination of failing and succeeding    *)
(* probes; SpecRSS, SpecDisks, SpecMemLimit and SpecCPULimit are the same  *)
(* program with one probe's files drawn from a wider set and the others    *)
(* ordinary ones.                                                          *)
(***************************************************************************)
EXTENDS Integers, Sequences, FiniteSets, TLC

(* ------------------------------ bounds --------------------------------- *)

\* Longest /proc/self/status, in lines.
MaxStatusLines == 2

\* Longest /proc/mounts, in lines.
MaxMountLines == 2

(* ------------------------- strings (package strings) ------------------- *)

RECURSIVE Str(_)
\* The Go string made of the characters cs.
Str(cs) == IF cs = <<>> THEN "" ELSE Head(cs) \o Str(Tail(cs))

\* unicode.IsSpace, on the characters that occur in the modelled files.
IsSpace(c) == c \in {" ", "\t", "\n", "\r"}

RECURSIVE TrimLeft(_)
TrimLeft(cs) ==
    IF cs # <<>> /\ IsSpace(Head(cs)) THEN TrimLeft(Tail(cs)) ELSE cs

RECURSIVE TrimRight(_)
TrimRight(cs) ==
    IF cs # <<>> /\ IsSpace(cs[Len(cs)])
    THEN TrimRight(SubSeq(cs, 1, Len(cs) - 1))
    ELSE cs

\* strings.TrimSpace
TrimSpace(cs) == TrimRight(TrimLeft(cs))

\* strings.HasPrefix
HasPrefix(cs, p) == Len(cs) >= Len(p) /\ SubSeq(cs, 1, Len(p)) = p

RECURSIVE SplitFrom(_, _, _)
SplitFrom(cs, sep, cur) ==
    IF cs = <<>> THEN <<cur>>
    ELSE IF Head(cs) = sep THEN <<cur>> \o SplitFrom(Tail(cs), sep, <<>>)
    ELSE SplitFrom(Tail(cs), sep, Append(cur, Head(cs)))

\* strings.Split(s, sep) for a one-character separator: n separators give
\* n + 1 pieces, the empty ones included.
Split(cs, sep) == SplitFrom(cs, sep, <<>>)

RECURSIVE FieldsFrom(_, _)
FieldsFrom(cs, cur) ==
    IF cs = <<>> THEN (IF cur = <<>> THEN <<>> ELSE <<cur>>)
    ELSE IF IsSpace(Head(cs))
         THEN (IF cur = <<>> THEN <<>> ELSE <<cur>>) \o FieldsFrom(Tail(cs), <<>>)
         ELSE FieldsFrom(Tail(cs), Append(cur, Head(cs)))

\* strings.Fields: the maximal runs of non-space characters.
Fields(cs) == FieldsFrom(cs, <<>>)

RECURSIVE IndexOf(_, _, _)
IndexOf(cs, c, i) ==
    IF i > Len(cs) THEN 0 ELSE IF cs[i] = c THEN i ELSE IndexOf(cs, c, i + 1)

\* strings.Cut(s, sep) for a one-character separator.
Cut(cs, sep) ==
    LET i == IndexOf(cs, sep, 1) IN
    IF i = 0 THEN [before |-> cs, after |-> <<>>, found |-> FALSE]
    ELSE [before |-> SubSeq(cs, 1, i - 1),
          after |-> SubSeq(cs, i + 1, Len(cs)), found |-> TRUE]

(* ------------------------------ numbers -------------------------------- *)

Digits == {"0", "1", "2", "3", "4", "5", "6", "7", "8", "9"}

DigitVal(c) ==
    CASE c = "0" -> 0 [] c = "1" -> 1 [] c = "2" -> 2 [] c = "3" -> 3
      [] c = "4" -> 4 [] c = "5" -> 5 [] c = "6" -> 6 [] c = "7" -> 7
      [] c = "8" -> 8 [] c = "9" -> 9

RECURSIVE DigitPrefix(_)
\* The longest prefix of cs made of decimal digits.
DigitPrefix(cs) ==
    IF cs # <<>> /\ Head(cs) \in Digits
    THEN <<Head(cs)>> \o DigitPrefix(Tail(cs))
    ELSE <<>>

RECURSIVE DecVal(_, _)
\* The value of the decimal digits ds, continuing from acc.
DecVal(ds, acc) ==
    IF ds = <<>> THEN acc ELSE DecVal(Tail(ds), acc * 10 + DigitVal(Head(ds)))

RECURSIVE GCD(_, _)
GCD(a, b) == IF b = 0 THEN a ELSE GCD(b, a % b)

Abs(n) == IF n < 0 THEN -n ELSE n

RECURSIVE Pow10(_)
Pow10(k) == IF k = 0 THEN 1 ELSE 10 * Pow10(k - 1)

(* uint64 as five limbs *)

BigZero == <<0, 0, 0, 0, 0>>

\* math.MaxUint64 = 18446744073709551615
MaxUint64 == <<1844, 6744, 737, 955, 1615>>

RECURSIVE BigLessFrom(_, _, _)
BigLessFrom(a, b, i) ==
    IF i > 5 THEN FALSE
    ELSE IF a[i] # b[i] THEN a[i] < b[i]
    ELSE BigLessFrom(a, b, i + 1)

\* a < b on uint64
BigLess(a, b) == BigLessFrom(a, b, 1)

RECURSIVE BigMulAddFrom(_, _, _, _)
\* Limbs i..1 of a * m + carry, as <<limbs, carry out>>.
BigMulAddFrom(a, m, carry, i) ==
    IF i = 0 THEN <<a, carry>>
    ELSE LET t == a[i] * m + carry IN
         BigMulAddFrom([a EXCEPT ![i] = t % 10000], m, t \div 10000, i - 1)

\* a * m + c for small m and c: [val, over], over when it exceeds 64 bits.
BigMulAdd(a, m, c) ==
    LET r == BigMulAddFrom(a, m, c, 5) IN
    [val |-> r[1], over |-> r[2] # 0 \/ BigLess(MaxUint64, r[1])]

RECURSIVE BigDivFrom(_, _, _, _)
BigDivFrom(a, m, rem, i) ==
    IF i > 5 THEN a
    ELSE LET t == rem * 10000 + a[i] IN
         BigDivFrom([a EXCEPT ![i] = t \div m], m, t % m, i + 1)

\* a / m on uint64, for small m (truncating).
BigDiv(a, m) == BigDivFrom(a, m, 0, 1)

\* uint64(n) for a small non-negative n
BigOf(n) == <<0, 0, 0, n \div 10000, n % 10000>>

(* --------------------- package strconv and fmt.Sscanf ------------------ *)

RECURSIVE ParseUintFrom(_, _)
ParseUintFrom(cs, n) ==
    IF cs = <<>> THEN [val |-> n, err |-> "nil"]
    ELSE IF Head(cs) \notin Digits THEN [val |-> BigZero, err |-> "ErrSyntax"]
    ELSE LET r == BigMulAdd(n, 10, DigitVal(Head(cs))) IN
         IF r.over THEN [val |-> MaxUint64, err |-> "ErrRange"]
         ELSE ParseUintFrom(Tail(cs), r.val)

\* strconv.ParseUint(s, 10, 64): digits only (no sign, no underscore), the
\* empty string is a syntax error, a value above MaxUint64 a range error.
ParseUint(cs) ==
    IF cs = <<>> THEN [val |-> BigZero, err |-> "ErrSyntax"]
    ELSE ParseUintFrom(cs, BigZero)

ToLower(c) ==
    CASE c = "I" -> "i" [] c = "N" -> "n" [] c = "F" -> "f" [] c = "A" -> "a"
      [] c = "T" -> "t" [] c = "Y" -> "y" [] OTHER -> c

Lower(cs) == [i \in 1..Len(cs) |-> ToLower(cs[i])]

NaN == [k |-> "nan", n |-> 0, d |-> 1]
Inf(sign) == [k |-> "inf", n |-> sign, d |-> 1]

\* The finite value n/d, in lowest terms with d > 0.
Fin(n, d) ==
    LET g == GCD(Abs(n), Abs(d))
        s == IF d < 0 THEN -1 ELSE 1
    IN [k |-> "fin", n |-> s * (n \div g), d |-> s * (d \div g)]

\* strconv.ParseFloat(s, 64) on the inputs of the model: an optional sign,
\* then "inf" or "infinity" in any case, or unsigned "nan" in any case, or
\* decimal digits with an optional point and at least one digit.  (The
\* modelled files hold no exponent, hexadecimal or underscore forms.)
ParseFloat(cs) ==
    LET signed == cs # <<>> /\ Head(cs) \in {"+", "-"}
        sign == IF signed /\ Head(cs) = "-" THEN -1 ELSE 1
        body == IF signed THEN Tail(cs) ELSE cs
        ip == DigitPrefix(body)
        rest == SubSeq(body, Len(ip) + 1, Len(body))
        fp == IF rest # <<>> /\ Head(rest) = "." THEN DigitPrefix(Tail(rest)) ELSE <<>>
        used == Len(ip) + (IF rest # <<>> /\ Head(rest) = "." THEN 1 + Len(fp) ELSE 0)
    IN IF Lower(body) \in {<<"i", "n", "f">>,
                           <<"i", "n", "f", "i", "n", "i", "t", "y">>}
       THEN [val |-> Inf(sign), err |-> "nil"]
       ELSE IF ~signed /\ Lower(body) = <<"n", "a", "n">>
       THEN [val |-> NaN, err |-> "nil"]
       ELSE IF Len(ip) + Len(fp) > 0 /\ used = Len(body)
       THEN [val |-> Fin(sign * DecVal(ip \o fp, 0), Pow10(Len(fp))), err |-> "nil"]
       ELSE [val |-> Fin(0, 1), err |-> "ErrSyntax"]

\* x / y on float64 (IEEE 754); the sign of a zero is not tracked.
FloatDiv(x, y) ==
    IF x.k = "nan" \/ y.k = "nan" THEN NaN
    ELSE IF x.k = "inf" /\ y.k = "inf" THEN NaN
    ELSE IF x.k = "inf" THEN Inf(IF y.n < 0 THEN -x.n ELSE x.n)
    ELSE IF y.k = "inf" THEN Fin(0, 1)
    ELSE IF y.n = 0 THEN (IF x.n = 0 THEN NaN ELSE Inf(IF x.n < 0 THEN -1 ELSE 1))
    ELSE Fin(x.n * y.d, x.d * y.n)

\* fmt.Sscanf(line, "<label> %d kB", &v) once the label has matched: the
\* space of the format and the verb skip blanks, then an optional sign and
\* at least one digit are read.  v is assigned only when the integer was
\* read; what follows it decides the returned error only, which the callers
\* drop.
Sscanf(line, label) ==
    LET r == TrimLeft(SubSeq(line, Len(label) + 1, Len(line)))
        signed == r # <<>> /\ Head(r) \in {"+", "-"}
        sign == IF signed /\ Head(r) = "-" THEN -1 ELSE 1
        ds == DigitPrefix(IF signed THEN Tail(r) ELSE r)
    IN IF ~HasPrefix(line, label) \/ ds = <<>>
       THEN [assigned |-> FALSE, val |-> 0]
       ELSE [assigned |-> TRUE, val |-> sign * DecVal(ds, 0)]

(* ------------------------------- probes -------------------------------- *)
(* A file of the environment is [ok, data]: ok is whether the read         *)
(* succeeds, data the characters read.  Every probe returns its Go result  *)
(* values and err, "nil" for no error.                                     *)

\* func countFDs: dir is [ok, n], n the number of entries of /proc/self/fd.
countFDs(dir) ==
    IF ~dir.ok THEN [val |-> 0, err |-> "ENOENT"]
    ELSE [val |-> dir.n, err |-> "nil"]

RECURSIVE getRSSLoop_LastMatch(_)
\* getRSSLoop without the return inside the loop: the last match wins.
getRSSLoop_LastMatch(lines) ==
    IF lines = <<>> THEN [val |-> 0, err |-> "VmRSS not found"]
    ELSE LET rest == getRSSLoop_LastMatch(Tail(lines))
             s == Sscanf(Head(lines), <<"V", "m", "R", "S", "S", ":">>)
         IN IF rest.err = "nil" THEN rest
            ELSE IF HasPrefix(Head(lines), <<"V", "m", "R", "S", "S", ":">>)
                 THEN [val |-> IF s.assigned THEN s.val ELSE 0, err |-> "nil"]
                 ELSE rest

RECURSIVE getRSSLoop(_)
getRSSLoop(lines) ==
    IF lines = <<>> THEN [val |-> 0, err |-> "VmRSS not found"]
    ELSE IF HasPrefix(Head(lines), <<"V", "m", "R", "S", "S", ":">>)
         THEN LET s == Sscanf(Head(lines), <<"V", "m", "R", "S", "S", ":">>) IN
              [val |-> IF s.assigned THEN s.val ELSE 0, err |-> "nil"]
         ELSE getRSSLoop(Tail(lines))

\* func getRSS
getRSS(file) ==
    IF ~file.ok THEN [val |-> 0, err |-> "ENOENT"]
    ELSE getRSSLoop(Split(file.data, "\n"))

\* func getBinPath: link is [ok, target] for /proc/self/exe.
getBinPath(link) ==
    IF ~link.ok THEN [val |-> "", err |-> "ENOENT"]
    ELSE [val |-> link.target, err |-> "nil"]

RECURSIVE getCPUInfoLoop(_)
getCPUInfoLoop(lines) ==
    IF lines = <<>> THEN ""
    ELSE LET c == Cut(Head(lines), ":") IN
         IF HasPrefix(Head(lines), <<"m", "o", "d", "e", "l", " ", "n", "a", "m", "e">>) /\ c.found
         THEN Str(TrimSpace(c.after))
         ELSE getCPUInfoLoop(Tail(lines))

\* getCPUInfo counting the cores before it reads the file, and returning the
\* count with the error.
getCPUInfo_CoresOnError(file, numCPU) ==
    IF ~file.ok THEN [model |-> "", cores |-> numCPU, err |-> "ENOENT"]
    ELSE [model |-> getCPUInfoLoop(Split(file.data, "\n")),
          cores |-> numCPU, err |-> "nil"]

\* func getCPUInfo: numCPU is runtime.NumCPU().
getCPUInfo(file, numCPU) ==
    IF ~file.ok THEN [model |-> "", cores |-> 0, err |-> "ENOENT"]
    ELSE [model |-> getCPUInfoLoop(Split(file.data, "\n")),
          cores |-> numCPU, err |-> "nil"]

RECURSIVE getMemInfoLoop(_, _)
getMemInfoLoop(lines, memTotal) ==
    IF lines = <<>> THEN memTotal
    ELSE LET s == Sscanf(Head(lines), <<"M", "e", "m", "T", "o", "t", "a", "l", ":">>) IN
         getMemInfoLoop(Tail(lines),
                        IF HasPrefix(Head(lines), <<"M", "e", "m", "T", "o", "t", "a", "l", ":">>) /\ s.assigned
                        THEN s.val ELSE memTotal)

\* func getMemInfo
getMemInfo(file) ==
    IF ~file.ok THEN [val |-> 0, err |-> "ENOENT"]
    ELSE [val |-> getMemInfoLoop(Split(file.data, "\n"), 0), err |-> "nil"]

\* unix.Statfs on a mountpoint that can be examined: Blocks, Bsize, Bfree.
Statfs(mountpoint) ==
    CASE mountpoint = "/" -> [Blocks |-> 1000000, Bsize |-> 4096, Bfree |-> 250000]
      [] mountpoint = "/sys" -> [Blocks |-> 0, Bsize |-> 4096, Bfree |-> 0]
      [] OTHER -> [Blocks |-> 2048, Bsize |-> 512, Bfree |-> 2048]

\* The products of lines 234-235 (uint64; the modelled sizes do not wrap).
DiskInfo(mountpoint, fsType, stat) ==
    [Mountpoint |-> mountpoint, FSType |-> fsType,
     Total |-> BigMulAdd(BigOf(stat.Blocks), stat.Bsize, 0).val,
     Free |-> BigMulAdd(BigOf(stat.Bfree), stat.Bsize, 0).val]

\* The types left out by a prefix test in place of the equality.
SkippedFSType_Prefix(fsType) ==
    fsType \in {"proc", "sysfs", "sysfsx", "cgroup", "cgroup2"}

\* The filesystem types the disk probe leaves out.
SkippedFSType(fsType) == fsType = "proc" \/ fsType = "sysfs" \/ fsType = "cgroup"

RECURSIVE getDisksInfoLoop(_, _, _, _)
\* The loop of getDisksInfo from line i on; statFails is the set of line
\* numbers whose unix.Statfs call fails.
getDisksInfoLoop(lines, i, statFails, disks) ==
    IF i > Len(lines) THEN disks
    ELSE LET fields == Fields(lines[i]) IN
         IF lines[i] = <<>> THEN getDisksInfoLoop(lines, i + 1, statFails, disks)
         ELSE IF Len(fields) < 3 THEN getDisksInfoLoop(lines, i + 1, statFails, disks)
         ELSE IF i \in statFails THEN getDisksInfoLoop(lines, i + 1, statFails, disks)
         ELSE IF SkippedFSType(Str(fields[3]))
              THEN getDisksInfoLoop(lines, i + 1, statFails, disks)
         ELSE getDisksInfoLoop(lines, i + 1, statFails,
                  Append(disks, DiskInfo(Str(fields[2]), Str(fields[3]),
                                         Statfs(Str(fields[2])))))

\* func getDisksInfo
getDisksInfo(file, statFails) ==
    IF ~file.ok THEN [val |-> <<>>, err |-> "ENOENT"]
    ELSE [val |-> getDisksInfoLoop(Split(file.data, "\n"), 1, statFails, <<>>),
          err |-> "nil"]

\* func readTrim
readTrim(file) ==
    IF ~file.ok THEN [val |-> <<>>, err |-> "ENOENT"]
    ELSE [val |-> TrimSpace(file.data), err |-> "nil"]

\* const unlimitedThreshold = uint64(1<<63) - 4096 = 9223372036854771712
unlimitedThreshold == <<922, 3372, 368, 5477, 1712>>

\* readCgroupMemoryLimit comparing with > in place of >=.
readCgroupMemoryLimit_Strict(file) ==
    LET value == readTrim(file)
        num == ParseUint(value.val)
    IN IF value.err # "nil" THEN [val |-> <<>>, err |-> value.err]
       ELSE IF num.err # "nil" THEN [val |-> <<>>, err |-> num.err]
       ELSE IF BigLess(unlimitedThreshold, num.val) THEN [val |-> <<>>, err |-> "nil"]
       ELSE [val |-> <<num.val>>, err |-> "nil"]

\* func readCgroupMemoryLimit: the result is a *uint64, <<>> for nil.
readCgroupMemoryLimit(file) ==
    LET value == readTrim(file)
        num == ParseUint(value.val)
    IN IF value.err # "nil" THEN [val |-> <<>>, err |-> value.err]
       ELSE IF num.err # "nil" THEN [val |-> <<>>, err |-> num.err]
       ELSE IF ~BigLess(num.val, unlimitedThreshold) THEN [val |-> <<>>, err |-> "nil"]
       ELSE [val |-> <<num.val>>, err |-> "nil"]

\* readCgroupCPULimit without the test of a zero period.
readCgroupCPULimit_NoZeroGuard(quotaFile, periodFile) ==
    LET quotaStr == readTrim(quotaFile)
        periodStr == readTrim(periodFile)
        quota == ParseFloat(quotaStr.val)
        period == ParseFloat(periodStr.val)
    IN IF quotaStr.err # "nil" THEN [val |-> <<>>, err |-> quotaStr.err]
       ELSE IF periodStr.err # "nil" THEN [val |-> <<>>, err |-> periodStr.err]
       ELSE IF quotaStr.val = <<"-", "1">> THEN [val |-> <<>>, err |-> "nil"]
       ELSE IF quota.err # "nil" THEN [val |-> <<>>, err |-> quota.err]
       ELSE IF period.err # "nil" THEN [val |-> <<>>, err |-> period.err]
       ELSE [val |-> <<FloatDiv(quota.val, period.val)>>, err |-> "nil"]

\* readCgroupCPULimit testing for "-1" after the two parses.
readCgroupCPULimit_ParseFirst(quotaFile, periodFile) ==
    LET quotaStr == readTrim(quotaFile)
        periodStr == readTrim(periodFile)
        quota == ParseFloat(quotaStr.val)
        period == ParseFloat(periodStr.val)
    IN IF quotaStr.err # "nil" THEN [val |-> <<>>, err |-> quotaStr.err]
       ELSE IF periodStr.err # "nil" THEN [val |-> <<>>, err |-> periodStr.err]
       ELSE IF quota.err # "nil" THEN [val |-> <<>>, err |-> quota.err]
       ELSE IF period.err # "nil" THEN [val |-> <<>>, err |-> period.err]
       ELSE IF quotaStr.val = <<"-", "1">> THEN [val |-> <<>>, err |-> "nil"]
       ELSE IF period.val.k = "fin" /\ period.val.n = 0
            THEN [val |-> <<>>, err |-> "cpu.cfs_period_us is zero"]
       ELSE [val |-> <<FloatDiv(quota.val, period.val)>>, err |-> "nil"]

\* func readCgroupCPULimit: the result is a *float64, <<>> for nil.
readCgroupCPULimit(quotaFile, periodFile) ==
    LET quotaStr == readTrim(quotaFile)
        periodStr == readTrim(periodFile)
        quota == ParseFloat(quotaStr.val)
        period == ParseFloat(periodStr.val)
    IN IF quotaStr.err # "nil" THEN [val |-> <<>>, err |-> quotaStr.err]
       ELSE IF periodStr.err # "nil" THEN [val |-> <<>>, err |-> periodStr.err]
       ELSE IF quotaStr.val = <<"-", "1">> THEN [val |-> <<>>, err |-> "nil"]
       ELSE IF quota.err # "nil" THEN [val |-> <<>>, err |-> quota.err]
       ELSE IF period.err # "nil" THEN [val |-> <<>>, err |-> period.err]
       ELSE IF period.val.k = "fin" /\ period.val.n = 0
            THEN [val |-> <<>>, err |-> "cpu.cfs_period_us is zero"]
       ELSE [val |-> <<FloatDiv(quota.val, period.val)>>, err |-> "nil"]

\* func humanMB: the number in front of " MB".
humanMB(b) == BigDiv(BigDiv(b, 1024), 1024)

(* ----------------------------- environment ----------------------------- *)

RECURSIVE JoinLines(_)
\* The text made of the given lines, each ended by a newline.
JoinLines(lines) ==
    IF lines = <<>> THEN <<>> ELSE Head(lines) \o <<"\n">> \o JoinLines(Tail(lines))

\* All sequences over S of length at most n.
SeqsUpTo(S, n) == UNION {[1..k -> S] : k \in 0..n}

\* A file that cannot be read, and the file holding data.
Unreadable == [ok |-> FALSE, data |-> <<>>]
FileOf(data) == [ok |-> TRUE, data |-> data]

\* A file of lines that cannot be read, and the one made of lines.
NoLines == [ok |-> FALSE, lines |-> <<>>]
LinesOf(lines) == [ok |-> TRUE, lines |-> lines]

\* os.ReadFile on a file of lines
ReadLines(f) == [ok |-> f.ok, data |-> JoinLines(f.lines)]

\* Lines of /proc/self/status.
StatusLines ==
    {<<"V", "m", "R", "S", "S", ":", " ", "7", " ", "k", "B">>, <<"V", "m", "R", "S", "S", ":", "\t", " ", " ", " ", " ", "4", "0", "9", "6", " ", "k", "B">>, <<"V", "m", "R", "S", "S", ":">>, <<" ", "V", "m", "R", "S", "S", ":", " ", "5", " ", "k", "B">>,
     <<"N", "a", "m", "e", ":", "\t", "s", "y", "s", "i", "n", "f", "o">>, <<"V", "m", "S", "i", "z", "e", ":", "\t", " ", "9", "0", "0", "0", " ", "k", "B">>}

\* Lines of /proc/mounts.
MountLines ==
    {<<"/", "d", "e", "v", "/", "s", "d", "a", "1", " ", "/", " ", "e", "x", "t", "4", " ", "r", "w", " ", "0", " ", "0">>, <<"p", "r", "o", "c", " ", "/", "p", "r", "o", "c", " ", "p", "r", "o", "c", " ", "r", "w">>, <<"s", "y", "s", "f", "s", " ", "/", "s", "y", "s", " ", "s", "y", "s", "f", "s", " ", "r", "w">>,
     <<"s", "y", "s", "f", "s", "\t", "/", "s", "y", "s", " ", " ", "s", "y", "s", "f", "s", "x">>, <<"c", "g", "r", "o", "u", "p", " ", "/", "c", "g", " ", "c", "g", "r", "o", "u", "p">>, <<"c", "g", "r", "o", "u", "p", "2", " ", "/", "c", "g", " ", "c", "g", "r", "o", "u", "p", "2", " ", "r", "w">>,
     <<"t", "m", "p", "f", "s", " ", "/", "t", "m", "p">>, <<" ", " ">>}

\* Contents of memory.limit_in_bytes.
MemLimitTexts ==
    {<<"0", "\n">>, <<" ", "1", "0", "4", "8", "5", "7", "6", "\n">>, <<"9", "2", "2", "3", "3", "7", "2", "0", "3", "6", "8", "5", "4", "7", "7", "1", "7", "1", "1", "\n">>, <<"9", "2", "2", "3", "3", "7", "2", "0", "3", "6", "8", "5", "4", "7", "7", "1", "7", "1", "2", "\n">>,
     <<"9", "2", "2", "3", "3", "7", "2", "0", "3", "6", "8", "5", "4", "7", "7", "5", "8", "0", "7", "\n">>, <<"1", "8", "4", "4", "6", "7", "4", "4", "0", "7", "3", "7", "0", "9", "5", "5", "1", "6", "1", "5", "\n">>,
     <<"1", "8", "4", "4", "6", "7", "4", "4", "0", "7", "3", "7", "0", "9", "5", "5", "1", "6", "1", "6", "\n">>, <<"m", "a", "x", "\n">>, <<"-", "1", "\n">>, <<>>}

\* Contents of cpu.cfs_quota_us.
QuotaTexts == {<<"-", "1", "\n">>, <<" ", "-", "1">>, <<"5", "0", "0", "0", "0", "\n">>, <<"0", "\n">>, <<"m", "a", "x", "\n">>, <<"N", "a", "N", "\n">>, <<"-", "1", "0", "\n">>}

\* Contents of cpu.cfs_period_us.
PeriodTexts == {<<"1", "0", "0", "0", "0", "0", "\n">>, <<"0", "\n">>, <<"-", "0", ".", "0", "\n">>, <<"\n">>, <<"1", "0", "0", "m", "s", "\n">>, <<"i", "n", "f", "\n">>}

\* The files of an ordinary host.
OrdinaryFS ==
    [fd |-> [ok |-> TRUE, n |-> 3],
     status |-> LinesOf(<<<<"N", "a", "m", "e", ":", "\t", "s", "y", "s", "i", "n", "f", "o">>, <<"V", "m", "R", "S", "S", ":", "\t", " ", " ", " ", " ", "4", "0", "9", "6", " ", "k", "B">>>>),
     exe |-> [ok |-> TRUE, target |-> "/usr/bin/sysinfo"],
     cpuinfo |-> LinesOf(<<<<"p", "r", "o", "c", "e", "s", "s", "o", "r", "\t", ":", " ", "0">>, <<"m", "o", "d", "e", "l", " ", "n", "a", "m", "e", "\t", ":", " ", "F", "o", "o", " ", "C", "P", "U", " ">>>>),
     numCPU |-> 4,
     meminfo |-> LinesOf(<<<<"M", "e", "m", "T", "o", "t", "a", "l", ":", " ", " ", " ", " ", " ", " ", " ", "1", "6", "3", "8", "4", " ", "k", "B">>, <<"M", "e", "m", "F", "r", "e", "e", ":", " ", "1", "0", "0", " ", "k", "B">>>>),
     mounts |-> LinesOf(<<<<"/", "d", "e", "v", "/", "s", "d", "a", "1", " ", "/", " ", "e", "x", "t", "4", " ", "r", "w", " ", "0", " ", "0">>, <<"p", "r", "o", "c", " ", "/", "p", "r", "o", "c", " ", "p", "r", "o", "c", " ", "r", "w">>>>),
     statFails |-> {},
     memLimit |-> FileOf(<<"1", "0", "4", "8", "5", "7", "6", "\n">>),
     quota |-> FileOf(<<"5", "0", "0", "0", "0", "\n">>),
     period |-> FileOf(<<"1", "0", "0", "0", "0", "0", "\n">>)]

\* Every combination of a probe that fails and one that succeeds, with the
\* readings that decide how the limits are reported.
CombinedFS ==
    [fd : {[ok |-> FALSE, n |-> 0], OrdinaryFS.fd},
     status : {NoLines, LinesOf(<<<<"N", "a", "m", "e", ":", "\t", "s", "y", "s", "i", "n", "f", "o">>>>), OrdinaryFS.status},
     exe : {[ok |-> FALSE, target |-> ""], OrdinaryFS.exe},
     cpuinfo : {NoLines, OrdinaryFS.cpuinfo},
     numCPU : {4},
     meminfo : {NoLines, OrdinaryFS.meminfo},
     mounts : {NoLines, LinesOf(<<<<"p", "r", "o", "c", " ", "/", "p", "r", "o", "c", " ", "p", "r", "o", "c", " ", "r", "w">>>>), OrdinaryFS.mounts},
     statFails : {{}},
     memLimit : {Unreadable, OrdinaryFS.memLimit, FileOf(<<"9", "2", "2", "3", "3", "7", "2", "0", "3", "6", "8", "5", "4", "7", "7", "1", "7", "1", "2", "\n">>)},
     quota : {Unreadable, OrdinaryFS.quota, FileOf(<<"-", "1", "\n">>), FileOf(<<"N", "a", "N", "\n">>)},
     period : {OrdinaryFS.period, FileOf(<<"0", "\n">>)}]

(* -------------------------------- main --------------------------------- *)

VARIABLES
    fs,          \* the files and directories the probes read
    pc,          \* the statement of main that runs next
    jsonOutput,  \* the --json flag
    fds, vmrss, path, model, cores, memTotal, disks, memLimit, cpuLimit,
    err,         \* the err variable of main
    info,        \* the SysInfo record, <<>> until it is built
    stdout,      \* the labels of the messages printed so far
    stderr,
    table,       \* the lines written through the tabwriter
    json,        \* <<the document printed>>, or <<>>
    exitCode,
    calls        \* the probes invoked so far, each with the error it returned

locals == <<fds, vmrss, path, model, cores, memTotal, disks, memLimit, cpuLimit>>
output == <<stdout, stderr, table, json, exitCode>>
vars == <<fs, pc, jsonOutput, locals, err, info, output, calls>>

\* The order in which main calls the probes.
ProbeOrder ==
    <<"countFDs", "getRSS", "getBinPath", "getCPUInfo", "getMemInfo",
      "getDisksInfo", "readCgroupMemoryLimit", "readCgroupCPULimit">>

Called(probe, e) == [probe |-> probe, err |-> e]

\* The process at the first statement of main, on the files f.
Start(f) ==
    /\ fs = f
    /\ pc = "countFDs"
    /\ jsonOutput \in BOOLEAN
    /\ fds = 0 /\ vmrss = 0 /\ path = "" /\ model = "" /\ cores = 0
    /\ memTotal = 0 /\ disks = <<>> /\ memLimit = <<>> /\ cpuLimit = <<>>
    /\ err = "nil"
    /\ info = <<>>
    /\ stdout = <<>> /\ stderr = <<>> /\ table = <<>> /\ json = <<>>
    /\ exitCode = 0
    /\ calls = <<>>

Init == \E f \in CombinedFS : Start(f)

\* main, lines 42-46
CallCountFDs ==
    /\ pc = "countFDs"
    /\ LET r == countFDs(fs.fd) IN
       /\ fds' = r.val
       /\ err' = r.err
       /\ calls' = Append(calls, Called("countFDs", r.err))
       /\ IF r.err # "nil"
          THEN stdout' = Append(stdout, "FDs counting error:") /\ pc' = "done"
          ELSE stdout' = stdout /\ pc' = "getRSS"
    /\ UNCHANGED <<fs, jsonOutput, vmrss, path, model, cores, memTotal, disks,
                   memLimit, cpuLimit, info, stderr, table, json, exitCode>>

\* CallGetRSS without the return of line 50.
CallGetRSS_NoReturn ==
    /\ pc = "getRSS"
    /\ LET r == getRSS(ReadLines(fs.status)) IN
       /\ vmrss' = r.val
       /\ err' = r.err
       /\ calls' = Append(calls, Called("getRSS", r.err))
       /\ stdout' = IF r.err # "nil" THEN Append(stdout, "VmRRS getting error:")
                    ELSE stdout
    /\ pc' = "getBinPath"
    /\ UNCHANGED <<fs, jsonOutput, fds, path, model, cores, memTotal, disks,
                   memLimit, cpuLimit, info, stderr, table, json, exitCode>>

\* main, lines 47-51
CallGetRSS ==
    /\ pc = "getRSS"
    /\ LET r == getRSS(ReadLines(fs.status)) IN
       /\ vmrss' = r.val
       /\ err' = r.err
       /\ calls' = Append(calls, Called("getRSS", r.err))
       /\ IF r.err # "nil"
          THEN stdout' = Append(stdout, "VmRRS getting error:") /\ pc' = "done"
          ELSE stdout' = stdout /\ pc' = "getBinPath"
    /\ UNCHANGED <<fs, jsonOutput, fds, path, model, cores, memTotal, disks,
                   memLimit, cpuLimit, info, stderr, table, json, exitCode>>

\* main, lines 52-55
CallGetBinPath ==
    /\ pc = "getBinPath"
    /\ LET r == getBinPath(fs.exe) IN
       /\ path' = r.val
       /\ err' = r.err
       /\ calls' = Append(calls, Called("getBinPath", r.err))
       /\ stdout' = IF r.err # "nil" THEN Append(stdout, "Path getting error:")
                    ELSE stdout
    /\ pc' = "getCPUInfo"
    /\ UNCHANGED <<fs, jsonOutput, fds, vmrss, model, cores, memTotal, disks,
                   memLimit, cpuLimit, info, stderr, table, json, exitCode>>

\* main, lines 56-59
CallGetCPUInfo ==
    /\ pc = "getCPUInfo"
    /\ LET r == getCPUInfo(ReadLines(fs.cpuinfo), fs.numCPU) IN
       /\ model' = r.model
       /\ cores' = r.cores
       /\ err' = r.err
       /\ calls' = Append(calls, Called("getCPUInfo", r.err))
       /\ stdout' = IF r.err # "nil" THEN Append(stdout, "CPU info getting error:")
                    ELSE stdout
    /\ pc' = "getMemInfo"
    /\ UNCHANGED <<fs, jsonOutput, fds, vmrss, path, memTotal, disks,
                   memLimit, cpuLimit, info, stderr, table, json, exitCode>>

\* CallGetMemInfo calling the probe once more after a failure.
CallGetMemInfo_Retry ==
    /\ pc = "getMemInfo"
    /\ LET r == getMemInfo(ReadLines(fs.meminfo)) IN
       /\ memTotal' = r.val
       /\ err' = r.err
       /\ calls' = Append(calls, Called("getMemInfo", r.err))
       /\ stdout' = IF r.err # "nil" THEN Append(stdout, "Mem info getting error:")
                    ELSE stdout
       /\ pc' = IF r.err # "nil" /\ Len(calls) < 5 THEN "getMemInfo"
                ELSE "getDisksInfo"
    /\ UNCHANGED <<fs, jsonOutput, fds, vmrss, path, model, cores, disks,
                   memLimit, cpuLimit, info, stderr, table, json, exitCode>>

\* main, lines 60-63
CallGetMemInfo ==
    /\ pc = "getMemInfo"
    /\ LET r == getMemInfo(ReadLines(fs.meminfo)) IN
       /\ memTotal' = r.val
       /\ err' = r.err
       /\ calls' = Append(calls, Called("getMemInfo", r.err))
       /\ stdout' = IF r.err # "nil" THEN Append(stdout, "Mem info getting error:")
                    ELSE stdout
    /\ pc' = "getDisksInfo"
    /\ UNCHANGED <<fs, jsonOutput, fds, vmrss, path, model, cores, disks,
                   memLimit, cpuLimit, info, stderr, table, json, exitCode>>

\* main, lines 64-67
CallGetDisksInfo ==
    /\ pc = "getDisksInfo"
    /\ LET r == getDisksInfo(ReadLines(fs.mounts), fs.statFails) IN
       /\ disks' = r.val
       /\ err' = r.err
       /\ calls' = Append(calls, Called("getDisksInfo", r.err))
       /\ stdout' = IF r.err # "nil" THEN Append(stdout, "Disk info getting error:")
                    ELSE stdout
    /\ pc' = "readCgroupMemoryLimit"
    /\ UNCHANGED <<fs, jsonOutput, fds, vmrss, path, model, cores, memTotal,
                   memLimit, cpuLimit, info, stderr, table, json, exitCode>>

\* main, lines 68-71
CallReadCgroupMemoryLimit ==
    /\ pc = "readCgroupMemoryLimit"
    /\ LET r == readCgroupMemoryLimit(fs.memLimit) IN
       /\ memLimit' = r.val
       /\ err' = r.err
       /\ calls' = Append(calls, Called("readCgroupMemoryLimit", r.err))
       /\ stdout' = IF r.err # "nil" THEN Append(stdout, "cgroup memory limit error:")
                    ELSE stdout
    /\ pc' = "readCgroupCPULimit"
    /\ UNCHANGED <<fs, jsonOutput, fds, vmrss, path, model, cores, memTotal, disks,
                   cpuLimit, info, stderr, table, json, exitCode>>

\* main, lines 72-75
CallReadCgroupCPULimit ==
    /\ pc = "readCgroupCPULimit"
    /\ LET r == readCgroupCPULimit(fs.quota, fs.period) IN
       /\ cpuLimit' = r.val
       /\ err' = r.err
       /\ calls' = Append(calls, Called("readCgroupCPULimit", r.err))
       /\ stdout' = IF r.err # "nil" THEN Append(stdout, "cgroup CPU limit error:")
                    ELSE stdout
    /\ pc' = "assemble"
    /\ UNCHANGED <<fs, jsonOutput, fds, vmrss, path, model, cores, memTotal, disks,
                   memLimit, info, stderr, table, json, exitCode>>

(* ---------------------------- encoding/json ---------------------------- *)
(* A document is the sequence of the members of an object, in the order    *)
(* the encoder writes them; a value is [t, v] with t its kind.             *)

Member(key, t, v) == [key |-> key, val |-> [t |-> t, v |-> v]]

JSONNull == [t |-> "null", v |-> 0]

\* DiskInfo has no field tags: the Go field names are the keys.
MarshalDiskInfo(d) ==
    <<Member("Mountpoint", "string", d.Mountpoint),
      Member("FSType", "string", d.FSType),
      Member("Total", "uint64", d.Total),
      Member("Free", "uint64", d.Free)>>

\* type CgroupV1: both fields are pointers tagged omitempty.
MarshalCgroupV1(c) ==
    (IF c.MemoryLimitBytes = <<>> THEN <<>>
     ELSE <<Member("memory_limit_bytes", "uint64", c.MemoryLimitBytes[1])>>)
    \o
    (IF c.CPULimitCores = <<>> THEN <<>>
     ELSE <<Member("cpu_limit_cores", "float64", c.CPULimitCores[1])>>)

\* MarshalSysInfo with cgroup_v1 not tagged omitempty: a nil pointer is
\* written as null.
MarshalSysInfo_NullCgroup(i) ==
    <<Member("fd_count", "int", i.FDCount),
      Member("vmrss_bytes", "int", i.VmRSS),
      Member("exe_path", "string", i.ExePath),
      Member("cpu_model", "string", i.CPUModel),
      Member("cpu_cores", "int", i.CPUCores),
      Member("mem_total_kb", "int", i.MemTotal),
      IF i.Mounts = <<>> THEN [key |-> "mounts", val |-> JSONNull]
      ELSE Member("mounts", "array",
                  [k \in 1..Len(i.Mounts) |-> MarshalDiskInfo(i.Mounts[k])]),
      IF i.CgroupV1 = <<>> THEN [key |-> "cgroup_v1", val |-> JSONNull]
      ELSE Member("cgroup_v1", "object", MarshalCgroupV1(i.CgroupV1[1]))>>

\* type SysInfo: a nil slice is written as null, a nil pointer tagged
\* omitempty is left out.
MarshalSysInfo(i) ==
    <<Member("fd_count", "int", i.FDCount),
      Member("vmrss_bytes", "int", i.VmRSS),
      Member("exe_path", "string", i.ExePath),
      Member("cpu_model", "string", i.CPUModel),
      Member("cpu_cores", "int", i.CPUCores),
      Member("mem_total_kb", "int", i.MemTotal),
      IF i.Mounts = <<>> THEN [key |-> "mounts", val |-> JSONNull]
      ELSE Member("mounts", "array",
                  [k \in 1..Len(i.Mounts) |-> MarshalDiskInfo(i.Mounts[k])])>>
    \o
    (IF i.CgroupV1 = <<>> THEN <<>>
     ELSE <<Member("cgroup_v1", "object", MarshalCgroupV1(i.CgroupV1[1]))>>)

\* json.MarshalIndent(info, "", "  "): the encoder rejects a float64 that is
\* NaN or infinite, and then nothing is returned but the error.
MarshalIndent(i) ==
    IF /\ i.CgroupV1 # <<>>
       /\ i.CgroupV1[1].CPULimitCores # <<>>
       /\ i.CgroupV1[1].CPULimitCores[1].k # "fin"
    THEN [out |-> <<>>, err |-> "UnsupportedValueError"]
    ELSE [out |-> MarshalSysInfo(i), err |-> "nil"]

(* ----------------------------- the renderer ---------------------------- *)

\* One line written to the tabwriter.
Line(label, kind, v) == [label |-> label, kind |-> kind, v |-> v]

\* The verb %.2f on a float64: the hundredths, rounded, with the sign.
Fmt2f(f) ==
    IF f.k # "fin" THEN [k |-> f.k, neg |-> f.n < 0, hundredths |-> 0]
    ELSE [k |-> "fin", neg |-> f.n < 0,
          hundredths |-> (200 * Abs(f.n) + f.d) \div (2 * f.d)]

\* main, lines 105-117: the cgroup lines of the table.
CgroupLines(i) ==
    IF i.CgroupV1 = <<>> THEN <<>>
    ELSE <<IF i.CgroupV1[1].MemoryLimitBytes = <<>>
           THEN Line("Cgroup (v1) MemLimit:", "unlimited", 0)
           ELSE Line("Cgroup (v1) MemLimit:", "MB", humanMB(i.CgroupV1[1].MemoryLimitBytes[1])),
           IF i.CgroupV1[1].CPULimitCores = <<>>
           THEN Line("Cgroup (v1) CPULimit:", "unlimited", 0)
           ELSE Line("Cgroup (v1) CPULimit:", "cores", Fmt2f(i.CgroupV1[1].CPULimitCores[1])),
           Line("", "blank", 0)>>

\* Assemble building the cgroup section only when a limit was read.
Assemble_NilWhenEmpty ==
    /\ pc = "assemble"
    /\ info' = <<[FDCount |-> fds, VmRSS |-> vmrss, ExePath |-> path,
                  CPUModel |-> model, CPUCores |-> cores, MemTotal |-> memTotal,
                  Mounts |-> disks,
                  CgroupV1 |-> IF memLimit = <<>> /\ cpuLimit = <<>> THEN <<>>
                               ELSE <<[MemoryLimitBytes |-> memLimit,
                                       CPULimitCores |-> cpuLimit]>>]>>
    /\ pc' = "render"
    /\ UNCHANGED <<fs, jsonOutput, locals, err, output, calls>>

\* main, lines 76-88
Assemble ==
    /\ pc = "assemble"
    /\ info' = <<[FDCount |-> fds, VmRSS |-> vmrss, ExePath |-> path,
                  CPUModel |-> model, CPUCores |-> cores, MemTotal |-> memTotal,
                  Mounts |-> disks,
                  CgroupV1 |-> <<[MemoryLimitBytes |-> memLimit,
                                  CPULimitCores |-> cpuLimit]>>]>>
    /\ pc' = "render"
    /\ UNCHANGED <<fs, jsonOutput, locals, err, output, calls>>

\* main, lines 90-96
RenderJSON ==
    /\ pc = "render"
    /\ jsonOutput
    /\ LET m == MarshalIndent(info[1]) IN
       IF m.err # "nil"
       THEN /\ stderr' = Append(stderr, "JSON marshal error:")
            /\ exitCode' = 1
            /\ json' = json
       ELSE /\ json' = <<m.out>>
            /\ UNCHANGED <<stderr, exitCode>>
    /\ pc' = "done"
    /\ UNCHANGED <<fs, jsonOutput, locals, err, info, stdout, table, calls>>

\* main, lines 97-129
RenderTable ==
    /\ pc = "render"
    /\ ~jsonOutput
    /\ table' =
         <<Line("FDs count:", "int", fds),
           Line("VmRSS:", "B", vmrss),
           Line("EXE path:", "string", path),
           Line("CPU model:", "string", model),
           Line("CPU cores:", "int", cores),
           Line("MemTotal:", "kB", memTotal)>>
         \o CgroupLines(info[1])
         \o <<Line("Mounts count:", "int", Len(disks)),
              Line("", "blank", 0),
              Line("Mount:", "header", 0)>>
         \o [k \in 1..Len(disks) |->
               Line(disks[k].Mountpoint, "row",
                    [fs |-> disks[k].FSType, total |-> humanMB(disks[k].Total),
                     free |-> humanMB(disks[k].Free)])]
    /\ pc' = "done"
    /\ UNCHANGED <<fs, jsonOutput, locals, err, info, stdout, stderr, json,
                   exitCode, calls>>

Next ==
    \/ CallCountFDs
    \/ CallGetRSS
    \/ CallGetBinPath
    \/ CallGetCPUInfo
    \/ CallGetMemInfo
    \/ CallGetDisksInfo
    \/ CallReadCgroupMemoryLimit
    \/ CallReadCgroupCPULimit
    \/ Assemble
    \/ RenderJSON
    \/ RenderTable

Spec == Init /\ [][Next]_vars

\* The resident-memory probe on every status file of up to MaxStatusLines
\* lines, readable or not.
StatusFiles ==
    {NoLines} \cup {LinesOf(l) : l \in SeqsUpTo(StatusLines, MaxStatusLines)}

SpecRSS ==
    /\ \E s \in StatusFiles : Start([OrdinaryFS EXCEPT !.status = s])
    /\ [][Next]_vars

\* The disk probe on every mounts table of up to MaxMountLines lines, with
\* every choice of the lines whose unix.Statfs call fails.
MountsFiles ==
    {[mounts |-> NoLines, statFails |-> {}]} \cup
    {[mounts |-> LinesOf(l), statFails |-> s] :
        l \in SeqsUpTo(MountLines, MaxMountLines), s \in SUBSET (1..MaxMountLines)}

SpecDisks ==
    /\ \E m \in MountsFiles :
          Start([OrdinaryFS EXCEPT !.mounts = m.mounts, !.statFails = m.statFails])
    /\ [][Next]_vars

SpecMemLimit ==
    /\ \E m \in {Unreadable} \cup {FileOf(t) : t \in MemLimitTexts} :
       \E q \in {OrdinaryFS.quota, Unreadable, FileOf(<<"-", "1">>)} :
          Start([OrdinaryFS EXCEPT !.memLimit = m, !.quota = q])
    /\ [][Next]_vars

SpecCPULimit ==
    /\ \E q \in {Unreadable} \cup {FileOf(t) : t \in QuotaTexts} :
       \E p \in {Unreadable} \cup {FileOf(t) : t \in PeriodTexts} :
          Start([OrdinaryFS EXCEPT !.quota = q, !.period = p])
    /\ [][Next]_vars

(* The encoder on SysInfo records at large, with and without a cgroup      *)
(* section: the renderer started in JSON mode on such a record.            *)

\* Results of the two cgroup probes.
MemLimitSamples == {<<>>, <<BigZero>>, <<BigOf(1048576)>>}
CPULimitSamples == {<<>>, <<Fin(1, 2)>>, <<Fin(0, 1)>>, <<NaN>>}

InitMarshal ==
    /\ fs = OrdinaryFS
    /\ pc = "render"
    /\ jsonOutput = TRUE
    /\ fds \in {0, 3} /\ vmrss = 4096 /\ path = "/usr/bin/sysinfo"
    /\ model = "Foo CPU" /\ cores = 4 /\ memTotal = 16384
    /\ disks \in {<<>>, <<DiskInfo("/", "ext4", Statfs("/"))>>}
    /\ memLimit \in MemLimitSamples
    /\ cpuLimit \in CPULimitSamples
    /\ err = "nil"
    /\ \E section \in BOOLEAN :
         info = <<[FDCount |-> fds, VmRSS |-> vmrss, ExePath |-> path,
                   CPUModel |-> model, CPUCores |-> cores, MemTotal |-> memTotal,
                   Mounts |-> disks,
                   CgroupV1 |-> IF section
                                THEN <<[MemoryLimitBytes |-> memLimit,
                                        CPULimitCores |-> cpuLimit]>>
                                ELSE <<>>]>>
    /\ stdout = <<>> /\ stderr = <<>> /\ table = <<>> /\ json = <<>>
    /\ exitCode = 0
    /\ calls = [k \in 1..Len(ProbeOrder) |-> Called(ProbeOrder[k], "nil")]

SpecMarshal == InitMarshal /\ [][RenderJSON]_vars

(* ============================== properties ============================= *)

\* The error the k-th probe of ProbeOrder returned, "" while it has not run.
ErrOf(k) == IF k <= Len(calls) THEN calls[k].err ELSE ""

Reported == table # <<>> \/ json # <<>>

HasKey(doc, key) == \E k \in 1..Len(doc) : doc[k].key = key

ValueOf(doc, key) == doc[CHOOSE k \in 1..Len(doc) : doc[k].key = key].val

Keys(doc) == {doc[k].key : k \in 1..Len(doc)}

HasLine(label, kind) ==
    \E k \in 1..Len(table) : table[k].label = label /\ table[k].kind = kind

NonFinite(limit) == limit # <<>> /\ limit[1].k # "fin"

(* ---- C1 ---- *)

\* C1: once countFDs or getRSS has returned an error, the failed call is the
\* last probe call of the run, main is over, and neither the table nor the
\* JSON document is ever emitted, whatever the render mode.
FatalProbeAborts ==
    \A k \in 1..2 :
        ErrOf(k) \notin {"", "nil"} =>
            /\ Len(calls) = k
            /\ pc = "done"
            /\ ~Reported
            /\ info = <<>>

\* A run in JSON mode that getRSS ended, on files whose later probes would
\* have succeeded.
FatalProbeAbortsWitness ==
    /\ pc = "done" /\ jsonOutput
    /\ ErrOf(1) = "nil" /\ ErrOf(2) = "VmRSS not found"
    /\ fs.exe.ok /\ fs.mounts.ok

(* ---- C2 ---- *)

\* What the files of CombinedFS hold, read off the files themselves.
ExpectedInfo ==
    [FDCount |-> 3,
     VmRSS |-> 4096,
     ExePath |-> IF fs.exe.ok THEN "/usr/bin/sysinfo" ELSE "",
     CPUModel |-> IF fs.cpuinfo.ok THEN "Foo CPU" ELSE "",
     CPUCores |-> IF fs.cpuinfo.ok THEN 4 ELSE 0,
     MemTotal |-> IF fs.meminfo.ok THEN 16384 ELSE 0,
     Mounts |-> IF fs.mounts = OrdinaryFS.mounts
                THEN <<[Mountpoint |-> "/", FSType |-> "ext4",
                        Total |-> <<0, 0, 40, 9600, 0>>,
                        Free |-> <<0, 0, 10, 2400, 0>>]>>
                ELSE <<>>,
     CgroupV1 |->
        <<[MemoryLimitBytes |-> IF fs.memLimit = OrdinaryFS.memLimit
                                THEN <<<<0, 0, 0, 104, 8576>>>> ELSE <<>>,
           CPULimitCores |->
               IF fs.period # OrdinaryFS.period \/ ~fs.quota.ok THEN <<>>
               ELSE IF fs.quota = OrdinaryFS.quota THEN <<[k |-> "fin", n |-> 1, d |-> 2]>>
               ELSE IF fs.quota = FileOf(<<"N", "a", "N", "\n">>) THEN <<NaN>>
               ELSE <<>>]>>]

\* The probes that fail on the files, read off the files themselves.
ExpectedFailures ==
    [k \in 1..8 |->
        CASE k = 3 -> ~fs.exe.ok
          [] k = 4 -> ~fs.cpuinfo.ok
          [] k = 5 -> ~fs.meminfo.ok
          [] k = 6 -> ~fs.mounts.ok
          [] k = 7 -> ~fs.memLimit.ok
          [] k = 8 -> \/ ~fs.quota.ok
                      \/ fs.period = FileOf(<<"0", "\n">>) /\ fs.quota # FileOf(<<"-", "1", "\n">>)
          [] OTHER -> FALSE]

\* The run went past both fatal probes.
PastFatal == ErrOf(1) = "nil" /\ ErrOf(2) = "nil"

\* C2 as claimed: when countFDs and getRSS succeed, whichever of the other
\* six probes fail, all eight probes are invoked, a report is emitted, and
\* the record holds the default of every failed probe and the value of every
\* probe that succeeded.
NonFatalFailuresStillReport ==
    (pc = "done" /\ PastFatal) =>
        /\ Len(calls) = 8
        /\ \A k \in 3..8 : (ErrOf(k) # "nil") = ExpectedFailures[k]
        /\ info = <<ExpectedInfo>>
        /\ Reported

\* C2 as amended: the same, but the report is emitted in table mode always
\* and in JSON mode unless the CPU limit is NaN or infinite; then the encoder
\* fails, the error goes to stderr, and the process exits with status 1 and
\* no document.
NonFatalFailuresKeepRecord ==
    (pc = "done" /\ PastFatal) =>
        /\ Len(calls) = 8
        /\ \A k \in 3..8 : (ErrOf(k) # "nil") = ExpectedFailures[k]
        /\ info = <<ExpectedInfo>>
        /\ ~jsonOutput => table # <<>> /\ exitCode = 0
        /\ jsonOutput /\ ~NonFinite(info[1].CgroupV1[1].CPULimitCores) =>
              json = <<MarshalSysInfo(ExpectedInfo)>> /\ exitCode = 0
        /\ jsonOutput /\ NonFinite(info[1].CgroupV1[1].CPULimitCores) =>
              ~Reported /\ exitCode = 1 /\ stderr = <<"JSON marshal error:">>

\* A reported run in which all six tolerated probes failed.
NonFatalFailuresWitness ==
    /\ pc = "done" /\ PastFatal /\ Reported
    /\ \A k \in 3..8 : ErrOf(k) \notin {"", "nil"}

(* ---- C3 ---- *)

\* The whitespace-separated fields of the lines of MountLines.
MountFields(line) ==
    CASE line = <<"/", "d", "e", "v", "/", "s", "d", "a", "1", " ", "/", " ", "e", "x", "t", "4", " ", "r", "w", " ", "0", " ", "0">> -> <<"/dev/sda1", "/", "ext4", "rw", "0", "0">>
      [] line = <<"p", "r", "o", "c", " ", "/", "p", "r", "o", "c", " ", "p", "r", "o", "c", " ", "r", "w">> -> <<"proc", "/proc", "proc", "rw">>
      [] line = <<"s", "y", "s", "f", "s", " ", "/", "s", "y", "s", " ", "s", "y", "s", "f", "s", " ", "r", "w">> -> <<"sysfs", "/sys", "sysfs", "rw">>
      [] line = <<"s", "y", "s", "f", "s", "\t", "/", "s", "y", "s", " ", " ", "s", "y", "s", "f", "s", "x">> -> <<"sysfs", "/sys", "sysfsx">>
      [] line = <<"c", "g", "r", "o", "u", "p", " ", "/", "c", "g", " ", "c", "g", "r", "o", "u", "p">> -> <<"cgroup", "/cg", "cgroup">>
      [] line = <<"c", "g", "r", "o", "u", "p", "2", " ", "/", "c", "g", " ", "c", "g", "r", "o", "u", "p", "2", " ", "r", "w">> -> <<"cgroup2", "/cg", "cgroup2", "rw">>
      [] line = <<"t", "m", "p", "f", "s", " ", "/", "t", "m", "p">> -> <<"tmpfs", "/tmp">>
      [] line = <<" ", " ">> -> <<>>

\* Line k of the mounts table is one the disk probe is to report.
Surviving(k) ==
    LET f == MountFields(fs.mounts.lines[k]) IN
    /\ fs.mounts.lines[k] # <<>>
    /\ Len(f) >= 3
    /\ k \notin fs.statFails
    /\ f[3] \notin {"proc", "sysfs", "cgroup"}

RECURSIVE SurvivorsFrom(_)
\* The mountpoint and type of the surviving lines from line k on, in order.
SurvivorsFrom(k) ==
    IF k > Len(fs.mounts.lines) THEN <<>>
    ELSE (IF Surviving(k)
          THEN <<[Mountpoint |-> MountFields(fs.mounts.lines[k])[2],
                  FSType |-> MountFields(fs.mounts.lines[k])[3]]>>
          ELSE <<>>) \o SurvivorsFrom(k + 1)

\* C3: on a readable mounts table the disk probe returns no error and exactly
\* the surviving lines in table order: those with at least three fields,
\* whose statfs call succeeds, and whose type is not exactly proc, sysfs or
\* cgroup.  It fails only when the table cannot be read.
DisksAreTheSurvivingLines ==
    Len(calls) >= 6 =>
        /\ (ErrOf(6) # "nil") = ~fs.mounts.ok
        /\ fs.mounts.ok =>
              [k \in 1..Len(disks) |->
                  [Mountpoint |-> disks[k].Mountpoint, FSType |-> disks[k].FSType]]
              = SurvivorsFrom(1)

\* A table with a line of type sysfsx that is reported after a line that is
\* dropped.
DisksWitness ==
    /\ Len(calls) >= 6 /\ fs.mounts.ok
    /\ Len(fs.mounts.lines) = 2
    /\ Len(MountFields(fs.mounts.lines[1])) < 3
    /\ Len(disks) = 1 /\ disks[1].FSType = "sysfsx"

(* ---- C4 and C5 ---- *)

\* The quota texts that are "-1" once trimmed, those that are a float, and
\* the period texts that are a float equal to zero.
MinusOneQuotas == {<<"-", "1", "\n">>, <<" ", "-", "1">>}
FloatQuotas == {<<"-", "1", "\n">>, <<" ", "-", "1">>, <<"5", "0", "0", "0", "0", "\n">>, <<"0", "\n">>, <<"N", "a", "N", "\n">>, <<"-", "1", "0", "\n">>}
ZeroPeriods == {<<"0", "\n">>, <<"-", "0", ".", "0", "\n">>}

BothLimitFilesRead == Len(calls) >= 8 /\ fs.quota.ok /\ fs.period.ok

\* C4 as claimed: with a period of zero and any quota string other than
\* "-1", the CPU limit probe fails with the zero-period error.
ZeroPeriodAnyQuota ==
    (/\ BothLimitFilesRead
     /\ fs.period.data \in ZeroPeriods
     /\ fs.quota.data \notin MinusOneQuotas) =>
        ErrOf(8) = "cpu.cfs_period_us is zero" /\ cpuLimit = <<>>

\* C4 as amended: with a period of zero and a quota string other than "-1"
\* that parses as a float, the CPU limit probe fails with the zero-period
\* error and returns no value.  (A quota that does not parse fails with the
\* parse error first.)
ZeroPeriodFloatQuota ==
    (/\ BothLimitFilesRead
     /\ fs.period.data \in ZeroPeriods
     /\ fs.quota.data \in FloatQuotas \ MinusOneQuotas) =>
        ErrOf(8) = "cpu.cfs_period_us is zero" /\ cpuLimit = <<>>

\* The probe has failed on a period of "-0.0" with a quota of "NaN".
ZeroPeriodWitness ==
    /\ pc = "assemble"
    /\ fs.period = FileOf(<<"-", "0", ".", "0", "\n">>) /\ fs.quota = FileOf(<<"N", "a", "N", "\n">>)
    /\ err = "cpu.cfs_period_us is zero"

\* C5: when the trimmed quota is exactly "-1", the CPU limit probe returns
\* no value and no error whatever the period file holds: a number, zero, or
\* text that is no number.
MinusOneQuotaIsUnlimited ==
    (BothLimitFilesRead /\ fs.quota.data \in MinusOneQuotas) =>
        ErrOf(8) = "nil" /\ cpuLimit = <<>>

\* The probe has returned on a quota of " -1" and a period that is no number.
MinusOneQuotaWitness ==
    /\ pc = "assemble"
    /\ fs.quota = FileOf(<<" ", "-", "1">>) /\ fs.period = FileOf(<<"1", "0", "0", "m", "s", "\n">>)
    /\ err = "nil" /\ cpuLimit = <<>>

(* ---- C6 ---- *)

\* The texts of MemLimitTexts that are an unsigned 64-bit integer once
\* trimmed, with their values.
MemLimitValues ==
    {[text |-> <<"0", "\n">>, v |-> <<0, 0, 0, 0, 0>>],
     [text |-> <<" ", "1", "0", "4", "8", "5", "7", "6", "\n">>, v |-> <<0, 0, 0, 104, 8576>>],
     [text |-> <<"9", "2", "2", "3", "3", "7", "2", "0", "3", "6", "8", "5", "4", "7", "7", "1", "7", "1", "1", "\n">>, v |-> <<922, 3372, 368, 5477, 1711>>],
     [text |-> <<"9", "2", "2", "3", "3", "7", "2", "0", "3", "6", "8", "5", "4", "7", "7", "1", "7", "1", "2", "\n">>, v |-> <<922, 3372, 368, 5477, 1712>>],
     [text |-> <<"9", "2", "2", "3", "3", "7", "2", "0", "3", "6", "8", "5", "4", "7", "7", "5", "8", "0", "7", "\n">>, v |-> <<922, 3372, 368, 5477, 5807>>],
     [text |-> <<"1", "8", "4", "4", "6", "7", "4", "4", "0", "7", "3", "7", "0", "9", "5", "5", "1", "6", "1", "5", "\n">>, v |-> <<1844, 6744, 737, 955, 1615>>]}

\* v >= 2^63 - 4096 = 9223372036854771712
AtOrAboveSentinel(v) == ~BigLess(v, <<922, 3372, 368, 5477, 1712>>)

\* C6: the memory limit probe returns no value and no error for a parsed
\* value at or above 2^63 - 4096, exactly the value and no error below it,
\* and an error only when the file cannot be read or does not parse.
MemLimitThreshold ==
    Len(calls) >= 7 =>
        /\ \A e \in MemLimitValues :
              fs.memLimit = FileOf(e.text) =>
                 /\ ErrOf(7) = "nil"
                 /\ memLimit = IF AtOrAboveSentinel(e.v) THEN <<>> ELSE <<e.v>>
        /\ ErrOf(7) # "nil" =>
              /\ memLimit = <<>>
              /\ \/ ~fs.memLimit.ok
                 \/ fs.memLimit.data \notin {e.text : e \in MemLimitValues}

\* The probe has returned 2^63 - 4097, the largest value it reports.
MemLimitWitness ==
    /\ pc = "readCgroupCPULimit"
    /\ fs.memLimit = FileOf(<<"9", "2", "2", "3", "3", "7", "2", "0", "3", "6", "8", "5", "4", "7", "7", "1", "7", "1", "1", "\n">>)
    /\ memLimit = <<<<922, 3372, 368, 5477, 1711>>>>

(* ---- C7 ---- *)

\* The lines of StatusLines that start with "VmRSS:", and the number N of
\* those of the form "VmRSS: N kB".
RSSPrefixed == {<<"V", "m", "R", "S", "S", ":", " ", "7", " ", "k", "B">>, <<"V", "m", "R", "S", "S", ":", "\t", " ", " ", " ", " ", "4", "0", "9", "6", " ", "k", "B">>, <<"V", "m", "R", "S", "S", ":">>}
RSSValues ==
    {[line |-> <<"V", "m", "R", "S", "S", ":", " ", "7", " ", "k", "B">>, n |-> 7], [line |-> <<"V", "m", "R", "S", "S", ":", "\t", " ", " ", " ", " ", "4", "0", "9", "6", " ", "k", "B">>, n |-> 4096]}

\* C7: on a readable status file the first line prefixed "VmRSS:" decides:
\* when it reads "VmRSS: N kB" the probe returns N and no error, wherever the
\* line stands and whatever surrounds it; when no line has the prefix the
\* probe fails with "VmRSS not found".
FirstRSSLineDecides ==
    (Len(calls) >= 2 /\ fs.status.ok) =>
        LET lines == fs.status.lines
            P == {k \in 1..Len(lines) : lines[k] \in RSSPrefixed}
        IN IF P = {}
           THEN ErrOf(2) = "VmRSS not found" /\ pc = "done"
           ELSE LET first == CHOOSE k \in P : \A j \in P : k <= j IN
                /\ ErrOf(2) = "nil"
                /\ \A e \in RSSValues : lines[first] = e.line => vmrss = e.n

\* The probe has returned the N of a "VmRSS: N kB" line that stands last,
\* after a line without the prefix.
FirstRSSLineWitness ==
    /\ pc = "getBinPath"
    /\ Len(fs.status.lines) = MaxStatusLines
    /\ fs.status.lines[1] = <<" ", "V", "m", "R", "S", "S", ":", " ", "5", " ", "k", "B">>
    /\ fs.status.lines[MaxStatusLines] = <<"V", "m", "R", "S", "S", ":", "\t", " ", " ", " ", " ", "4", "0", "9", "6", " ", "k", "B">>
    /\ vmrss = 4096

(* ---- C8 ---- *)

\* C8: the document has the key cgroup_v1 exactly when the record has a
\* cgroup section, and then as an object, never null; in it
\* memory_limit_bytes is present exactly when the memory limit probe returned
\* a value and cpu_limit_cores exactly when the CPU limit probe did, and
\* neither is null.
CgroupKeysOmittedWhenAbsent ==
    json # <<>> =>
        LET doc == json[1] IN
        /\ HasKey(doc, "cgroup_v1") = (info[1].CgroupV1 # <<>>)
        /\ HasKey(doc, "cgroup_v1") =>
              LET c == ValueOf(doc, "cgroup_v1") IN
              /\ c.t = "object"
              /\ HasKey(c.v, "memory_limit_bytes") = (memLimit # <<>>)
              /\ HasKey(c.v, "cpu_limit_cores") = (cpuLimit # <<>>)
              /\ \A k \in 1..Len(c.v) : c.v[k].val.t # "null"

\* A document printed for a record without a cgroup section.
CgroupKeysWitness ==
    /\ pc = "done" /\ json # <<>>
    /\ info[1].CgroupV1 = <<>>
    /\ ~HasKey(json[1], "cgroup_v1")

(* ---- C9 ---- *)

\* C9: the probes invoked so far are a prefix of the fixed order, so each is
\* invoked once and none again after a failure; the record is built and the
\* report rendered only after all eight have returned.
ProbesInFixedOrderOnce ==
    /\ Len(calls) <= Len(ProbeOrder)
    /\ \A k \in 1..Len(calls) : calls[k].probe = ProbeOrder[k]
    /\ (pc \in {"assemble", "render"} \/ Reported \/ info # <<>>) =>
          Len(calls) = Len(ProbeOrder)
    /\ (pc \notin {"assemble", "render", "done"}) =>
          ProbeOrder[Len(calls) + 1] = pc

\* A finished run in which the memory total probe failed and the probes
\* after it still ran.
ProbesInFixedOrderWitness ==
    /\ pc = "done" /\ Reported
    /\ ErrOf(5) = "ENOENT" /\ ErrOf(6) = "nil"

(* ---- C10 ---- *)

\* C10 as claimed: in every run that reaches the renderer the record has a
\* cgroup section; JSON mode emits a cgroup_v1 object, table mode both
\* cgroup lines.
CgroupSectionAlwaysRendered ==
    /\ pc \in {"render", "done"} /\ PastFatal => info[1].CgroupV1 # <<>>
    /\ pc = "done" /\ PastFatal /\ jsonOutput =>
          json # <<>> /\ HasKey(json[1], "cgroup_v1")
    /\ pc = "done" /\ PastFatal /\ ~jsonOutput =>
          /\ HasLine("Cgroup (v1) MemLimit:", "unlimited") = (memLimit = <<>>)
          /\ HasLine("Cgroup (v1) CPULimit:", "unlimited") = (cpuLimit = <<>>)

\* C10 as amended: in every run that reaches the renderer the record has a
\* cgroup section.  Table mode prints both cgroup lines, "unlimited" for a
\* limit whose probe failed as for an unlimited reading.  JSON mode emits a
\* cgroup_v1 object holding the limits that are present (empty when both are
\* absent), unless the CPU limit is NaN or infinite: then no document is
\* printed.
CgroupSectionAlwaysBuilt ==
    /\ pc \in {"render", "done"} /\ PastFatal => info[1].CgroupV1 # <<>>
    /\ pc = "done" /\ PastFatal /\ jsonOutput =>
          /\ (json = <<>>) = NonFinite(cpuLimit)
          /\ json # <<>> =>
                /\ HasKey(json[1], "cgroup_v1")
                /\ ValueOf(json[1], "cgroup_v1").t = "object"
                /\ Keys(ValueOf(json[1], "cgroup_v1").v) =
                      (IF memLimit # <<>> THEN {"memory_limit_bytes"} ELSE {})
                      \cup (IF cpuLimit # <<>> THEN {"cpu_limit_cores"} ELSE {})
    /\ pc = "done" /\ PastFatal /\ ~jsonOutput =>
          /\ HasLine("Cgroup (v1) MemLimit:", "unlimited") = (memLimit = <<>>)
          /\ HasLine("Cgroup (v1) MemLimit:", "MB") = (memLimit # <<>>)
          /\ HasLine("Cgroup (v1) CPULimit:", "unlimited") = (cpuLimit = <<>>)
          /\ HasLine("Cgroup (v1) CPULimit:", "cores") = (cpuLimit # <<>>)

\* A table that shows "unlimited" for a memory limit whose probe failed, and
\* a JSON document whose cgroup_v1 object is empty.
CgroupSectionWitness ==
    /\ pc = "done" /\ PastFatal
    /\ ErrOf(7) = "ENOENT"
    /\ \/ HasLine("Cgroup (v1) MemLimit:", "unlimited")
       \/ json # <<>> /\ ValueOf(json[1], "cgroup_v1").v = <<>>

====
